---- MODULE Spec2Model ----
(***************************************************************************)
(* Model of the client-side logging service of FrugalBitesVendor           *)
(* (class Logger, src/FrugalBitesVendor/src/App.tsx lines 151-448, and its *)
(* configuration, src/FrugalBitesVendor/src/config/logging.config.ts).     *)
(*                                                                         *)
(* JavaScript runs one callback at a time: every action below is one       *)
(* synchronous run of code between two suspension points (a public call up *)
(* to its return, a timer callback, the continuation after an await).      *)
(* AsyncStorage and fetch are the environment: their completions are       *)
(* actions of their own with every outcome the API allows.                 *)
(***************************************************************************)
EXTENDS Integers, Sequences, FiniteSets, TLC

VARIABLES
    heap,         \* configuration objects; heap[1] is the exported loggingConfig
    cfgRef,       \* Logger.config: the object each logger refers to
    live,         \* the Logger instances constructed so far
    pendingLogs,  \* Logger.pendingLogs
    flushTimer,   \* Logger.flushTimer: the timeout handle held, 0 for null
    timers,       \* the host's timer table: the timeouts set and not yet fired
                  \* or cleared
    inflight,     \* fetch calls awaiting their outcome
    store,        \* AsyncStorage's value under LOG_STORAGE_KEY
    appends,      \* storeLocally calls suspended at an await
    console,      \* what was written to the console channels, in order
    calls,        \* number of leveled calls made so far (entry identity)
    lastCall,     \* the latest leveled call: logger, level, the host it ran on,
                  \* whether it raised to its caller
    reads,        \* getStoredLogs calls suspended at their await
    returned,     \* what the getStoredLogs call that returned last returned
    clears,       \* clearStoredLogs calls suspended at their await
    cleared,      \* ids of the entries that a clearStoredLogs removed
    exports,      \* exportLogs calls suspended at their await
    exported,     \* what the exportLogs call that returned last returned
    sent,         \* number of requests handed to fetch so far
    delivered,    \* the endpoint: ids of the entries it answered with success
    lastSettled,  \* the fetch that settled last, with its outcome
    accepted      \* per entry id pushed by queueForRemote: the thresholds it passed

\* the state of the clearStoredLogs and exportLogs calls
tools == <<clears, cleared, exports, exported>>

vars == <<heap, cfgRef, live, pendingLogs, flushTimer, timers, inflight, store,
          appends, console, calls, lastCall, reads, returned, tools, sent,
          delivered, lastSettled, accepted>>

----------------------------------------------------------------------------
(* Bounds of the model *)

\* leveled calls in the specification of the remote uploader's interleavings
MaxCalls == 3
\* leveled calls in the specification of overlapping appends
MaxStoreCalls == 3
\* leveled calls in the specification of sequential appends
MaxSeqCalls == 5
\* leveled calls in the specification that reaches the batch threshold
MaxBatchCalls == 11
\* leveled calls in the specification that draws every pair of thresholds
MaxGateCalls == 2
\* largest maxStoredLogs drawn for the initial configuration
MaxCap == 3
\* storeLocally calls suspended at the same time
MaxAppends == 2

----------------------------------------------------------------------------
(* Program constants *)

\* queueForRemote flushes when pendingLogs.length >= 10
BatchSize == 10

LoggerIds == {"root", "child"}

LogLevels == {"debug", "info", "warn", "error", "none"}

\* the levels the public methods debug/info/warn/error pass to log()
CallLevels == {"debug", "info", "warn", "error"}

\* a slip in LOG_LEVELS: none ranked with error
LogLevelsNoneAsError(level) ==
    CASE level = "debug" -> 0
      [] level = "info"  -> 1
      [] level = "warn"  -> 2
      [] level = "error" -> 3
      [] level = "none"  -> 3

\* LOG_LEVELS
LOG_LEVELS(level) ==
    CASE level = "debug" -> 0
      [] level = "info"  -> 1
      [] level = "warn"  -> 2
      [] level = "error" -> 3
      [] level = "none"  -> 4

\* productionConfig (remoteEndpoint: "url" when set, "unset" when undefined)
productionConfig ==
    [minLevel |-> "info", enableConsole |-> FALSE, enableLocalStorage |-> TRUE,
     maxStoredLogs |-> 200, enableRemoteLogging |-> TRUE, remoteEndpoint |-> "url",
     remoteMinLevel |-> "warn", includeDeviceInfo |-> TRUE]

\* developmentConfig
developmentConfig ==
    [minLevel |-> "debug", enableConsole |-> TRUE, enableLocalStorage |-> TRUE,
     maxStoredLogs |-> 500, enableRemoteLogging |-> FALSE, remoteEndpoint |-> "unset",
     remoteMinLevel |-> "error", includeDeviceInfo |-> TRUE]

----------------------------------------------------------------------------
(* Helpers *)

\* this.config of a logger
Cfg(lg) == heap[cfgRef[lg]]

Last(s) == s[Len(s)]

SeqToSet(s) == {s[i] : i \in 1..Len(s)}

\* { ...config, ...updates }: updates is a record with some of the fields
Merge(config, updates) ==
    [f \in DOMAIN config |-> IF f \in DOMAIN updates THEN updates[f] ELSE config[f]]

\* Array.prototype.slice(-n) for an integer n >= 0: -0 is 0, so slice(-0) is
\* slice(0), the whole array; otherwise the last n elements
SliceLast(logs, n) ==
    IF n = 0 \/ n >= Len(logs) THEN logs
    ELSE SubSeq(logs, Len(logs) - n + 1, Len(logs))

\* a slip in shouldLog: the gate left open
ShouldLogAlways(lg, level) == TRUE

\* shouldLog
ShouldLog(lg, level) == LOG_LEVELS(level) >= LOG_LEVELS(Cfg(lg).minLevel)

\* a slip in shouldLogRemote: the level is not compared
ShouldLogRemoteAnyLevel(lg, level) == Cfg(lg).enableRemoteLogging

\* a slip in shouldLogRemote: > where >= is meant
ShouldLogRemoteStrict(lg, level) ==
    /\ Cfg(lg).enableRemoteLogging
    /\ LOG_LEVELS(level) > LOG_LEVELS(Cfg(lg).remoteMinLevel)

\* shouldLogRemote
ShouldLogRemote(lg, level) ==
    /\ Cfg(lg).enableRemoteLogging
    /\ LOG_LEVELS(level) >= LOG_LEVELS(Cfg(lg).remoteMinLevel)

\* formatEntry: id stands for the object's identity and its timestamp's order
FormatEntry(lg, level, message, data) ==
    [id |-> calls + 1, level |-> level, message |-> message, context |-> lg,
     data |-> data, deviceInfo |-> Cfg(lg).includeDeviceInfo]

----------------------------------------------------------------------------
(* Logger.log and the synchronous part of the three sinks *)

\* logToConsole: one write to the channel of the entry's level
LogToConsole(lg, entry) ==
    IF Cfg(lg).enableConsole
    THEN Append(console, [channel |-> entry.level, id |-> entry.id,
                          withData |-> entry.data # "undefined"])
    ELSE console

\* a slip in storeLocally: enableLocalStorage is not looked at
StoreLocallyAlways(lg, entry) ==
    appends \cup {[entry |-> entry, logger |-> lg, phase |-> "get",
                   read |-> [kind |-> "absent", logs |-> <<>>],
                   val |-> [kind |-> "absent", logs |-> <<>>]]}

\* storeLocally up to its first await: AsyncStorage.getItem is issued.  read
\* is the local `stored`, val the value in hand (what was read, then the array
\* given to setItem)
StoreLocallyStart(lg, entry) ==
    IF Cfg(lg).enableLocalStorage
    THEN appends \cup {[entry |-> entry, logger |-> lg, phase |-> "get",
                        read |-> [kind |-> "absent", logs |-> <<>>],
                        val |-> [kind |-> "absent", logs |-> <<>>]]}
    ELSE appends

\* a slip in queueForRemote: > where >= is meant
SizeTriggeredLate(n) == n > BatchSize

\* the test pendingLogs.length >= 10 of queueForRemote
SizeTriggered(n) == n >= BatchSize

\* a slip in flushRemoteLogs: the field is reset, the timeout is not cleared
ClearTimeoutForgotten(hostTimers, lg, handle) == hostTimers

\* if (this.flushTimer) clearTimeout(this.flushTimer): no timeout has handle 0
ClearTimeout(hostTimers, lg, handle) ==
    hostTimers \ {[logger |-> lg, handle |-> handle]}

\* a slip in flushRemoteLogs: the test of remoteEndpoint is missing
FlushWithoutEndpoint(lg, pending, trigger, hostTimers) ==
    /\ timers' = hostTimers \ {[logger |-> lg, handle |-> flushTimer[lg]]}
    /\ flushTimer' = [flushTimer EXCEPT ![lg] = 0]
    /\ IF Len(pending) = 0
       THEN /\ pendingLogs' = [pendingLogs EXCEPT ![lg] = pending]
            /\ UNCHANGED <<inflight, sent>>
       ELSE /\ pendingLogs' = [pendingLogs EXCEPT ![lg] = <<>>]
            /\ sent' = sent + 1
            /\ inflight' = inflight \cup
                 {[rid |-> sent + 1, logger |-> lg, logs |-> pending,
                   trigger |-> trigger, alone |-> inflight = {}]}

\* a slip in flushRemoteLogs: the timer is neither cleared nor forgotten
FlushKeepsTimer(lg, pending, trigger, hostTimers) ==
    /\ timers' = hostTimers
    /\ UNCHANGED flushTimer
    /\ IF Len(pending) = 0 \/ Cfg(lg).remoteEndpoint = "unset"
       THEN /\ pendingLogs' = [pendingLogs EXCEPT ![lg] = pending]
            /\ UNCHANGED <<inflight, sent>>
       ELSE /\ pendingLogs' = [pendingLogs EXCEPT ![lg] = <<>>]
            /\ sent' = sent + 1
            /\ inflight' = inflight \cup
                 {[rid |-> sent + 1, logger |-> lg, logs |-> pending,
                   trigger |-> trigger, alone |-> inflight = {}]}

\* flushRemoteLogs up to its await: the timer is cancelled first; with nothing
\* pending or no endpoint it returns; otherwise the queue is copied, reset and
\* handed to fetch.  pending is this.pendingLogs at the call, hostTimers the
\* host's timer table at the call.
FlushRemoteLogs(lg, pending, trigger, hostTimers) ==
    /\ timers' = ClearTimeout(hostTimers, lg, flushTimer[lg])
    /\ flushTimer' = [flushTimer EXCEPT ![lg] = 0]
    /\ IF Len(pending) = 0 \/ Cfg(lg).remoteEndpoint = "unset"
       THEN /\ pendingLogs' = [pendingLogs EXCEPT ![lg] = pending]
            /\ UNCHANGED <<inflight, sent>>
       ELSE /\ pendingLogs' = [pendingLogs EXCEPT ![lg] = <<>>]
            /\ sent' = sent + 1
            /\ inflight' = inflight \cup
                 {[rid |-> sent + 1, logger |-> lg, logs |-> pending,
                   trigger |-> trigger, alone |-> inflight = {}]}

\* a slip in queueForRemote: a timeout is set at every enqueue
SetTimeoutAlways(handle) == TRUE

\* the test !this.flushTimer of queueForRemote
NoTimerHeld(handle) == handle = 0

\* a slip in the class: pendingLogs and flushTimer declared static, one queue
\* and one timer (the root's) for every instance
QueueForRemoteStatic(lg, entry) ==
    IF ~ShouldLogRemote(lg, entry.level)
    THEN UNCHANGED <<pendingLogs, flushTimer, timers, inflight, sent, accepted>>
    ELSE /\ accepted' = accepted \cup
              {[id |-> entry.id, minLevel |-> Cfg(lg).minLevel,
                remoteMinLevel |-> Cfg(lg).remoteMinLevel]}
         /\ IF Len(pendingLogs["root"]) + 1 >= BatchSize
            THEN FlushRemoteLogs("root", Append(pendingLogs["root"], entry),
                                 "size", timers)
            ELSE /\ pendingLogs' = [pendingLogs EXCEPT !["root"] = Append(@, entry)]
                 /\ IF flushTimer["root"] = 0
                    THEN /\ flushTimer' = [flushTimer EXCEPT !["root"] = entry.id]
                         /\ timers' = timers \cup
                              {[logger |-> "root", handle |-> entry.id]}
                    ELSE UNCHANGED <<flushTimer, timers>>
                 /\ UNCHANGED <<inflight, sent>>

\* queueForRemote; the handle setTimeout returns is named after the entry
\* whose enqueue set it
QueueForRemote(lg, entry) ==
    IF ~ShouldLogRemote(lg, entry.level)
    THEN UNCHANGED <<pendingLogs, flushTimer, timers, inflight, sent, accepted>>
    ELSE /\ accepted' = accepted \cup
              {[id |-> entry.id, minLevel |-> Cfg(lg).minLevel,
                remoteMinLevel |-> Cfg(lg).remoteMinLevel]}
         /\ IF SizeTriggered(Len(pendingLogs[lg]) + 1)
            THEN FlushRemoteLogs(lg, Append(pendingLogs[lg], entry), "size",
                                 timers)
            ELSE /\ pendingLogs' = [pendingLogs EXCEPT ![lg] = Append(@, entry)]
                 /\ IF NoTimerHeld(flushTimer[lg])
                    THEN /\ flushTimer' = [flushTimer EXCEPT ![lg] = entry.id]
                         /\ timers' = timers \cup
                              {[logger |-> lg, handle |-> entry.id]}
                    ELSE UNCHANGED <<flushTimer, timers>>
                 /\ UNCHANGED <<inflight, sent>>

\* the host a call runs on: whether Platform.Version is defined, and whether
\* the console methods return or throw
Hosts == [version : {"defined", "undefined"}, console : {"works", "throws"}]

HealthyHost == [version |-> "defined", console |-> "works"]

\* formatEntry, lines 247-250: Platform.Version.toString() throws a TypeError
\* when Platform.Version is undefined
FormatEntryThrows(lg, host) ==
    Cfg(lg).includeDeviceInfo /\ host.version = "undefined"

\* logToConsole has no try: what console.debug/info/warn/error throws leaves
\* logToConsole
LogToConsoleThrows(lg, host) ==
    Cfg(lg).enableConsole /\ host.console = "throws"

\* log(level, message, data) on a given host, called by the public method
\* named; error and context are logError's arguments, kept with the call.  log has no try: an exception of formatEntry or logToConsole ends
\* the call before the statements that follow and reaches the caller.
LogWith(lg, method, level, message, data, host, error, context) ==
    /\ lg \in live
    /\ calls' = calls + 1
    /\ UNCHANGED <<heap, cfgRef, live, store, reads, returned, tools, delivered,
                   lastSettled>>
    /\ IF ~ShouldLog(lg, level)
       THEN /\ lastCall' = [logger |-> lg, method |-> method, level |-> level,
                            host |-> host, raised |-> FALSE,
                            error |-> error, context |-> context]
            /\ UNCHANGED <<pendingLogs, flushTimer, timers, inflight, appends,
                           console, sent, accepted>>
       ELSE IF FormatEntryThrows(lg, host) \/ LogToConsoleThrows(lg, host)
       THEN /\ lastCall' = [logger |-> lg, method |-> method, level |-> level,
                            host |-> host, raised |-> TRUE,
                            error |-> error, context |-> context]
            /\ UNCHANGED <<pendingLogs, flushTimer, timers, inflight, appends,
                           console, sent, accepted>>
       ELSE LET entry == FormatEntry(lg, level, message, data)
            IN /\ lastCall' = [logger |-> lg, method |-> method, level |-> level,
                                host |-> host, raised |-> FALSE,
                                error |-> error, context |-> context]
               /\ console' = LogToConsole(lg, entry)
               /\ appends' = StoreLocallyStart(lg, entry)
               /\ QueueForRemote(lg, entry)

\* debug/info/warn/error(message, data) on a given host: log(level, message,
\* data); every caller's message is the one text
LogCall(lg, level, data, host) ==
    LogWith(lg, level, level, "text", data, host, "undefined", "undefined")

\* a leveled call on a host whose platform and console work
Log(lg, level, data) == LogCall(lg, level, data, HealthyHost)

\* the errors passed to logError, each known by its message; name and stack
\* are the same for all
Errors == {"boom", ""}

\* the optional context argument of logError
ErrorContexts == {"undefined", "", "checkout"}

\* { name: error.name, message: error.message, stack: error.stack }
ErrorInfo(error) ==
    CASE error = "boom" -> "{name, message: boom, stack}"
      [] error = ""     -> "{name, message: , stack}"

\* a slip in logError: the context is passed on as it is
LogErrorMessageNoDefault(error, context) == context

\* context || error.message
LogErrorMessage(error, context) ==
    IF context \in {"undefined", ""} THEN error ELSE context

\* logError(error, context)
LogError(lg, error, context) ==
    LogWith(lg, "logError", "error", LogErrorMessage(error, context),
            ErrorInfo(error), HealthyHost, error, context)

----------------------------------------------------------------------------
(* storeLocally after its awaits, and AsyncStorage *)

\* AsyncStorage.getItem resolves with the value stored at that moment
GetItemResolves(t) ==
    /\ t \in appends /\ t.phase = "get"
    /\ appends' = (appends \ {t}) \cup {[t EXCEPT !.phase = "got", !.read = store, !.val = store]}
    /\ UNCHANGED <<heap, cfgRef, live, pendingLogs, flushTimer, timers, inflight,
                   store, console, calls, lastCall, reads, returned, tools, sent,
                   delivered, lastSettled, accepted>>

\* the console.error(what, error) of a catch block
ConsoleError(what) ==
    Append(console, [channel |-> "error", id |-> 0, withData |-> TRUE])

\* an AsyncStorage call rejects: the catch of storeLocally writes to the
\* console and the entry is not stored
StorageRejects(t) ==
    /\ t \in appends /\ t.phase \in {"get", "set"}
    /\ appends' = appends \ {t}
    /\ console' = ConsoleError("Failed to store log")
    /\ UNCHANGED <<heap, cfgRef, live, pendingLogs, flushTimer, timers, inflight,
                   store, calls, lastCall, reads, returned, tools, sent, delivered,
                   lastSettled, accepted>>

\* a slip in storeLocally: the parsed array is dropped, only the new entry
\* is written
TruncateToEntry(logs, entry, maxStoredLogs) == <<entry>>

\* lines 306-313: parse, push, keep only the most recent logs
Truncate(logs, entry, maxStoredLogs) ==
    LET pushed == Append(logs, entry)
    IN IF Len(pushed) > maxStoredLogs THEN SliceLast(pushed, maxStoredLogs)
       ELSE pushed

\* storeLocally resumes after getItem: JSON.parse of a corrupt value throws
\* into the catch; otherwise the new array is handed to AsyncStorage.setItem
StoreLocallyResume(t) ==
    /\ t \in appends /\ t.phase = "got"
    /\ IF t.val.kind = "corrupt"
       THEN /\ appends' = appends \ {t}
            /\ console' = ConsoleError("Failed to store log")
       ELSE /\ appends' = (appends \ {t}) \cup
                 {[t EXCEPT !.phase = "set",
                            !.val = [kind |-> "json",
                                     logs |-> Truncate(t.val.logs, t.entry,
                                                Cfg(t.logger).maxStoredLogs)]]}
            /\ UNCHANGED console
    /\ UNCHANGED <<heap, cfgRef, live, pendingLogs, flushTimer, timers, inflight,
                   store, calls, lastCall, reads, returned, tools, sent, delivered,
                   lastSettled, accepted>>

\* AsyncStorage.setItem takes effect and resolves; storeLocally returns
SetItemResolves(t) ==
    /\ t \in appends /\ t.phase = "set"
    /\ store' = t.val
    /\ appends' = appends \ {t}
    /\ UNCHANGED <<heap, cfgRef, live, pendingLogs, flushTimer, timers, inflight,
                   console, calls, lastCall, reads, returned, tools, sent, delivered,
                   lastSettled, accepted>>

----------------------------------------------------------------------------
(* the flush timer and fetch *)

\* the setTimeout callback of queueForRemote: () => this.flushRemoteLogs()
TimerFires(lg) ==
    /\ lg \in live
    /\ \E t \in timers :
         /\ t.logger = lg
         /\ FlushRemoteLogs(lg, pendingLogs[lg], "timer", timers \ {t})
    /\ UNCHANGED <<heap, cfgRef, live, store, appends, console, calls, lastCall,
                   reads, returned, tools, delivered, lastSettled, accepted>>

\* the catch of flushRemoteLogs: put logs back if send failed
Requeue(logsToSend, pending) == logsToSend \o pending

\* fetch settles.  "ok": it resolves with a 2xx response; "status": it resolves
\* with a non-success response (fetch does not reject on an HTTP status);
\* "reject": a transport error, the await throws into the catch.
FetchSettles(f, outcome) ==
    /\ f \in inflight
    /\ inflight' = inflight \ {f}
    /\ lastSettled' = [rid |-> f.rid, logger |-> f.logger, logs |-> f.logs,
                        alone |-> f.alone, outcome |-> outcome]
    /\ delivered' =
         IF outcome = "ok" THEN delivered \cup {f.logs[i].id : i \in 1..Len(f.logs)}
         ELSE delivered
    /\ pendingLogs' =
         IF outcome = "reject"
         THEN [pendingLogs EXCEPT ![f.logger] = Requeue(f.logs, @)]
         ELSE pendingLogs
    /\ UNCHANGED <<heap, cfgRef, live, flushTimer, timers, store, appends,
                   console, calls, lastCall, reads, returned, tools, sent, accepted>>

----------------------------------------------------------------------------
(* configuration updates *)

\* updateLoggingConfig: Object.assign(loggingConfig, updates)
UpdateLoggingConfig(updates) ==
    /\ heap' = [heap EXCEPT ![1] = Merge(@, updates)]
    /\ heap' # heap
    /\ UNCHANGED <<cfgRef, live, pendingLogs, flushTimer, timers, inflight, store,
                   appends, console, calls, lastCall, reads, returned, tools, sent,
                   delivered, lastSettled, accepted>>

\* Logger.configure: this.config = { ...this.config, ...updates }, a new object
Configure(lg, updates) ==
    /\ lg \in live
    /\ heap' = Append(heap, Merge(Cfg(lg), updates))
    /\ cfgRef' = [cfgRef EXCEPT ![lg] = Len(heap) + 1]
    /\ UNCHANGED <<live, pendingLogs, flushTimer, timers, inflight, store,
                   appends, console, calls, lastCall, reads, returned, tools, sent,
                   delivered, lastSettled, accepted>>

\* withContext(context): a new Logger named by its context label, with its own
\* pendingLogs and flushTimer and a reference to the parent's configuration
WithContext(parent, child) ==
    /\ parent \in live /\ child \in LoggerIds \ live
    /\ live' = live \cup {child}
    /\ cfgRef' = [cfgRef EXCEPT ![child] = cfgRef[parent]]
    /\ pendingLogs' = [pendingLogs EXCEPT ![child] = <<>>]
    /\ flushTimer' = [flushTimer EXCEPT ![child] = 0]
    /\ UNCHANGED <<heap, timers, inflight, store, appends, console, calls,
                   lastCall, reads, returned, tools, sent, delivered, lastSettled,
                   accepted>>

----------------------------------------------------------------------------
(* getStoredLogs *)

\* a slip in getStoredLogs: the catch is missing, JSON.parse's exception
\* and AsyncStorage's rejection reach the caller
GetStoredLogsUncaught(read, stored) ==
    [read |-> read,
     value |-> IF read = "resolved" /\ stored.kind = "json" THEN stored.logs
               ELSE <<>>,
     raised |-> read = "rejected" \/ stored.kind = "corrupt"]

\* what getStoredLogs returns once getItem has settled: stored ?
\* JSON.parse(stored) : [] in a try whose catch returns []
GetStoredLogsReturn(read, stored) ==
    [read |-> read,
     value |-> CASE read = "rejected"       -> <<>>
                 [] stored.kind = "absent"  -> <<>>
                 [] stored.kind = "corrupt" -> <<>>
                 [] stored.kind = "json"    -> stored.logs,
     raised |-> FALSE]

\* getStoredLogs up to its await: AsyncStorage.getItem is issued
GetStoredLogs ==
    /\ reads' = reads + 1
    /\ UNCHANGED <<heap, cfgRef, live, pendingLogs, flushTimer, timers, inflight,
                   store, appends, console, calls, lastCall, returned, tools,
                   sent, delivered, lastSettled, accepted>>

\* getItem settles for a suspended getStoredLogs, which returns
GetStoredLogsSettles(read) ==
    /\ reads > 0
    /\ reads' = reads - 1
    /\ returned' = GetStoredLogsReturn(read, store)
    /\ UNCHANGED <<heap, cfgRef, live, pendingLogs, flushTimer, timers, inflight,
                   store, appends, console, calls, lastCall, tools, sent,
                   delivered, lastSettled, accepted>>

----------------------------------------------------------------------------
(* clearStoredLogs *)

\* clearStoredLogs up to its await: AsyncStorage.removeItem is issued
ClearStoredLogs ==
    /\ clears' = clears + 1
    /\ UNCHANGED <<heap, cfgRef, live, pendingLogs, flushTimer, timers, inflight,
                   store, appends, console, calls, lastCall, reads, returned,
                   cleared, exports, exported, sent, delivered, lastSettled,
                   accepted>>

\* removeItem takes effect and resolves; clearStoredLogs returns
RemoveItemResolves ==
    /\ clears > 0
    /\ clears' = clears - 1
    /\ store' = [kind |-> "absent", logs |-> <<>>]
    /\ cleared' = cleared \cup {store.logs[i].id : i \in 1..Len(store.logs)}
    /\ UNCHANGED <<heap, cfgRef, live, pendingLogs, flushTimer, timers, inflight,
                   appends, console, calls, lastCall, reads, returned, exports,
                   exported, sent, delivered, lastSettled, accepted>>

\* removeItem rejects: the catch of clearStoredLogs writes to the console
RemoveItemRejects ==
    /\ clears > 0
    /\ clears' = clears - 1
    /\ console' = ConsoleError("Failed to clear logs")
    /\ UNCHANGED <<heap, cfgRef, live, pendingLogs, flushTimer, timers, inflight,
                   store, appends, calls, lastCall, reads, returned, cleared,
                   exports, exported, sent, delivered, lastSettled, accepted>>

----------------------------------------------------------------------------
(* exportLogs *)

\* JavaScript truthiness of an entry's data: undefined (no data attached),
\* null, false, 0 and the empty string are falsy, an object is truthy
Truthy(data) == data \notin {"undefined", "null", "false", "zero", "empty"}

\* JSON.stringify of a data value
Stringify(data) ==
    CASE data = "object" -> "{}"
      [] data = "null"   -> "null"
      [] data = "false"  -> "false"
      [] data = "zero"   -> "0"
      [] data = "empty"  -> "\"\""
      [] OTHER           -> "undefined"

\* String.prototype.toUpperCase on a level
ToUpperCase(level) ==
    CASE level = "debug" -> "DEBUG"
      [] level = "info"  -> "INFO"
      [] level = "warn"  -> "WARN"
      [] level = "error" -> "ERROR"
      [] OTHER           -> "NONE"

\* one line of exportLogs, its parts kept apart: timestamp [LEVEL] [context]
\* message, then log.data ? ' ' + JSON.stringify(log.data) : ''
ExportLine(log) ==
    [timestamp |-> log.id, level |-> ToUpperCase(log.level),
     context |-> log.context, message |-> log.message,
     data |-> IF Truthy(log.data) THEN Stringify(log.data) ELSE ""]

\* logs.map(...).join('\n'): the lines in the order of the logs
ExportLines(logs) == [i \in 1..Len(logs) |-> ExportLine(logs[i])]

\* exportLogs up to the await inside getStoredLogs
ExportLogs ==
    /\ exports' = exports + 1
    /\ UNCHANGED <<heap, cfgRef, live, pendingLogs, flushTimer, timers, inflight,
                   store, appends, console, calls, lastCall, reads, returned,
                   clears, cleared, exported, sent, delivered, lastSettled,
                   accepted>>

\* getItem settles for a suspended exportLogs: getStoredLogs returns its
\* array and exportLogs the text made of it
ExportLogsSettles(read) ==
    /\ exports > 0
    /\ exports' = exports - 1
    /\ LET logs == GetStoredLogsReturn(read, store).value
       IN exported' = [logs |-> logs, lines |-> ExportLines(logs)]
    /\ UNCHANGED <<heap, cfgRef, live, pendingLogs, flushTimer, timers, inflight,
                   store, appends, console, calls, lastCall, reads, returned,
                   clears, cleared, sent, delivered, lastSettled, accepted>>

----------------------------------------------------------------------------
(* Initial states *)

\* the state after `export const logger = new Logger()`, with loggingConfig as
\* given and the stored value as a previous run left it
InitWith(config, stored) ==
    /\ heap = <<config>>
    /\ cfgRef = [lg \in LoggerIds |-> 1]
    /\ live = {"root"}
    /\ pendingLogs = [lg \in LoggerIds |-> <<>>]
    /\ flushTimer = [lg \in LoggerIds |-> 0]
    /\ timers = {}
    /\ inflight = {}
    /\ store = stored
    /\ appends = {}
    /\ console = <<>>
    /\ calls = 0
    /\ lastCall = [logger |-> "root", method |-> "none", level |-> "none",
                   host |-> HealthyHost, raised |-> FALSE,
                   error |-> "undefined", context |-> "undefined"]
    /\ reads = 0
    /\ returned = [read |-> "none", value |-> <<>>, raised |-> FALSE]
    /\ clears = 0
    /\ cleared = {}
    /\ exports = 0
    /\ exported = [logs |-> <<>>, lines |-> <<>>]
    /\ sent = 0
    /\ delivered = {}
    /\ lastSettled = [rid |-> 0, logger |-> "root", logs |-> <<>>, alone |-> TRUE,
                      outcome |-> "ok"]
    /\ accepted = {}

EmptyStore == [kind |-> "absent", logs |-> <<>>]

\* a stored text that JSON.parse rejects
CorruptStore == [kind |-> "corrupt", logs |-> <<>>]

----------------------------------------------------------------------------
(* The durable store: leveled calls whose appends may overlap *)

\* what a caller may attach to a call: nothing, or an object
DataValues == {"undefined", "object"}

\* local storage only, every capacity from 0 to MaxCap
StoreConfigs ==
    {[developmentConfig EXCEPT !.enableConsole = FALSE, !.maxStoredLogs = n] :
        n \in 0..MaxCap}

InitStore == \E config \in StoreConfigs : InitWith(config, EmptyStore)

StorageStep ==
    \E t \in appends :
        \/ GetItemResolves(t)
        \/ StoreLocallyResume(t)
        \/ SetItemResolves(t)
        \/ StorageRejects(t)

NextStore ==
    \/ /\ calls < MaxStoreCalls
       /\ Cardinality(appends) < MaxAppends
       /\ \E level \in {"info", "error"}, data \in DataValues :
            Log("root", level, data)
    \/ StorageStep

SpecStore == InitStore /\ [][NextStore]_vars

\* the ids of the stored entries, oldest first
StoredIds == [i \in 1..Len(store.logs) |-> store.logs[i].id]

\* the last n elements of s, none when n = 0
LastN(s, n) == IF n >= Len(s) THEN s ELSE SubSeq(s, Len(s) - n + 1, Len(s))

\* C1: whatever maxStoredLogs >= 0 is configured (0 included), the sequence
\* persisted by storeLocally never holds more than maxStoredLogs entries.
C1_StoreNeverExceedsCapacity ==
    store.kind = "json" => Len(store.logs) <= Cfg("root").maxStoredLogs

----------------------------------------------------------------------------
(* The durable store: appends strictly one after another, none failing *)

NextSeq ==
    \/ /\ calls < MaxSeqCalls
       /\ appends = {}
       /\ \E level \in {"info", "error"}, data \in DataValues :
            Log("root", level, data)
    \/ \E t \in appends :
        \/ GetItemResolves(t)
        \/ StoreLocallyResume(t)
        \/ SetItemResolves(t)

SpecSeq == InitStore /\ [][NextSeq]_vars

\* C2: from an empty store, once N > maxStoredLogs appends have run one after
\* another, the store holds the last maxStoredLogs entries, e(N-max+1)..eN, in
\* their original order.
C2_SequentialAppendsKeepLast ==
    (appends = {} /\ calls > Cfg("root").maxStoredLogs)
        => /\ store.kind = "json"
           /\ StoredIds = LastN([i \in 1..calls |-> i], Cfg("root").maxStoredLogs)

\* the same for capacities of at least 1, where slice(-n) drops from the front
SequentialAppendsKeepLastPositive ==
    (appends = {} /\ calls > Cfg("root").maxStoredLogs
                  /\ Cfg("root").maxStoredLogs >= 1)
        => /\ store.kind = "json"
           /\ StoredIds = LastN([i \in 1..calls |-> i], Cfg("root").maxStoredLogs)

\* with a capacity of at least 1 the store never exceeds it
StoreBoundedPositive ==
    (store.kind = "json" /\ Cfg("root").maxStoredLogs >= 1)
        => Len(store.logs) <= Cfg("root").maxStoredLogs

----------------------------------------------------------------------------
(* Level gating: every pair of thresholds, every sink on or off *)

GateConfigs ==
    {[productionConfig EXCEPT !.minLevel = minLevel, !.remoteMinLevel = remoteMinLevel,
                              !.enableConsole = enableConsole,
                              !.enableLocalStorage = enableLocalStorage,
                              !.enableRemoteLogging = enableRemoteLogging] :
        minLevel \in LogLevels, remoteMinLevel \in LogLevels,
        enableConsole \in BOOLEAN, enableLocalStorage \in BOOLEAN,
        enableRemoteLogging \in BOOLEAN}

InitGate == \E config \in GateConfigs : InitWith(config, EmptyStore)

FetchOutcomes == {"ok", "status", "reject"}

RemoteStep ==
    \/ \E lg \in live : TimerFires(lg)
    \/ \E f \in inflight, outcome \in FetchOutcomes : FetchSettles(f, outcome)

NextGate ==
    \/ /\ calls < MaxGateCalls
       /\ \E level \in CallLevels : Log("root", level, "undefined")
    \/ RemoteStep

SpecGate == InitGate /\ [][NextGate]_vars

\* a step that is a leveled call
IsCall == calls' = calls + 1

\* the call of this step wrote to the console
ReachesConsole == Len(console') = Len(console) + 1 /\ Last(console').id = calls'

\* the entry of this step's call is in the pending queue or in a batch just sent
ReachesRemote ==
    \/ \E i \in 1..Len(pendingLogs'[lastCall'.logger]) :
          pendingLogs'[lastCall'.logger][i].id = calls'
    \/ \E f \in inflight' \ inflight : \E i \in 1..Len(f.logs) : f.logs[i].id = calls'

\* C3 as stated: a call at level L reaches the console (when enabled) iff
\* rank(L) >= rank(minLevel), and reaches the remote queue (when remote logging
\* is enabled) iff rank(L) >= rank(remoteMinLevel), whatever minLevel is.
C3_SinksFilteredIndependently ==
    [][IsCall =>
        LET lg == lastCall'.logger
            rank == LOG_LEVELS(lastCall'.level)
        IN /\ Cfg(lg).enableConsole =>
                (ReachesConsole <=> rank >= LOG_LEVELS(Cfg(lg).minLevel))
           /\ Cfg(lg).enableRemoteLogging =>
                (ReachesRemote <=> rank >= LOG_LEVELS(Cfg(lg).remoteMinLevel))]_vars

\* C3 amended: the console is reached iff rank(L) >= rank(minLevel); the remote
\* queue is reached iff rank(L) >= rank(minLevel) and rank(L) >=
\* rank(remoteMinLevel): minLevel gates every sink, remoteMinLevel the remote
\* one only.
C3_RemoteBehindBothThresholds ==
    [][IsCall =>
        LET lg == lastCall'.logger
            rank == LOG_LEVELS(lastCall'.level)
        IN /\ Cfg(lg).enableConsole =>
                (ReachesConsole <=> rank >= LOG_LEVELS(Cfg(lg).minLevel))
           /\ ~Cfg(lg).enableConsole => console' = console
           /\ Cfg(lg).enableRemoteLogging =>
                (ReachesRemote <=> /\ rank >= LOG_LEVELS(Cfg(lg).minLevel)
                                   /\ rank >= LOG_LEVELS(Cfg(lg).remoteMinLevel))
           /\ ~Cfg(lg).enableRemoteLogging => ~ReachesRemote]_vars

\* a call passed remoteMinLevel, with remote logging on, and was stopped by
\* minLevel: nothing was ever queued
C3_Witness ==
    /\ calls = 1
    /\ Cfg(lastCall.logger).enableRemoteLogging
    /\ LOG_LEVELS(lastCall.level) >= LOG_LEVELS(Cfg(lastCall.logger).remoteMinLevel)
    /\ LOG_LEVELS(lastCall.level) < LOG_LEVELS(Cfg(lastCall.logger).minLevel)
    /\ accepted = {}

\* C4: a leveled call below minLevel writes nothing to the console, leaves the
\* store and the appends in progress, the pending queue, the timer and the
\* requests as they were.
C4_BelowMinLevelNoEffect ==
    [][(IsCall /\ LOG_LEVELS(lastCall'.level)
                    < LOG_LEVELS(Cfg(lastCall'.logger).minLevel))
        => UNCHANGED <<console, store, appends, pendingLogs, flushTimer, timers,
                       inflight, sent, delivered, accepted>>]_vars

\* a debug call was made under minLevel = info with every sink enabled
C4_Witness ==
    /\ calls >= 1
    /\ lastCall.level = "debug"
    /\ Cfg(lastCall.logger).minLevel = "info"
    /\ Cfg(lastCall.logger).enableConsole
    /\ Cfg(lastCall.logger).enableLocalStorage
    /\ Cfg(lastCall.logger).enableRemoteLogging
    /\ LOG_LEVELS("debug") >= LOG_LEVELS(Cfg(lastCall.logger).remoteMinLevel)

\* an append of the entry of this call starts in this step
ReachesStore == \E t \in appends' \ appends : t.entry.id = calls'

ConsoleOffOnlyFallback ==
    ~Cfg("root").enableConsole => \A i \in 1..Len(console) : console[i].id = 0

\* C15: the threshold none disables a sink entirely: with minLevel none no
\* call produces console output, an append or an enqueue; with remoteMinLevel
\* none no entry is ever pending and no request is ever sent, whatever the
\* other settings.
C15_ThresholdNoneDisablesSink ==
    /\ Cfg("root").minLevel = "none" =>
          /\ console = <<>> /\ appends = {} /\ store = EmptyStore
          /\ accepted = {} /\ pendingLogs["root"] = <<>> /\ timers = {}
          /\ sent = 0
    /\ Cfg("root").remoteMinLevel = "none" =>
          /\ accepted = {} /\ pendingLogs["root"] = <<>> /\ timers = {}
          /\ flushTimer["root"] = 0 /\ sent = 0 /\ inflight = {}

\* two error calls with remoteMinLevel none and everything else open: the
\* console and the store have them, the remote uploader has nothing
C15_Witness ==
    /\ calls = 2 /\ lastCall.level = "error"
    /\ Cfg("root").remoteMinLevel = "none" /\ Cfg("root").minLevel = "debug"
    /\ Cfg("root").enableRemoteLogging /\ Cfg("root").enableConsole
    /\ Cfg("root").enableLocalStorage
    /\ Len(console) = 2 /\ Cardinality(appends) = 2
    /\ \A i \in 1..2 : console[i].channel = "error"
    /\ sent = 0 /\ pendingLogs["root"] = <<>>

----------------------------------------------------------------------------
(* The remote uploader: timer flushes, overlapping sends, threshold updates *)

RemoteThresholds == {"info", "error"}

\* remote logging only, endpoint set
RemoteConfigs ==
    {[productionConfig EXCEPT !.minLevel = "debug", !.enableLocalStorage = FALSE,
                              !.remoteMinLevel = remoteMinLevel] :
        remoteMinLevel \in RemoteThresholds}

InitRemote == \E config \in RemoteConfigs : InitWith(config, EmptyStore)

ThresholdUpdates == {[remoteMinLevel |-> level] : level \in RemoteThresholds}

NextRemote ==
    \/ /\ calls < MaxCalls
       /\ \E level \in {"info", "error"} : Log("root", level, "undefined")
    \/ RemoteStep
    \/ \E updates \in ThresholdUpdates : UpdateLoggingConfig(updates)

SpecRemote == InitRemote /\ [][NextRemote]_vars

\* the ids of a sequence of entries
Ids(logs) == [i \in 1..Len(logs) |-> logs[i].id]

\* a step in which the fetch of f settles
Settles(f) == f \in inflight /\ f \notin inflight' /\ lastSettled'.rid = f.rid

\* a step in which request f is handed to fetch
Sends(f) == f \in inflight' /\ f \notin inflight

\* f was sent while nothing was in flight and nothing was sent since
SentAlone(f) == f.alone /\ f.rid = sent

\* the entries accepted by queueForRemote after batch logs was taken
AcceptedAfter(acc, logs) ==
    {a.id : a \in {x \in acc : \A i \in 1..Len(logs) : x.id > logs[i].id}}

\* C5: when the send of batch B fails while no other flush is in flight,
\* pending becomes B followed by the entries enqueued during the attempt, in
\* enqueue order; the next request carries B followed by everything enqueued
\* since, in that order.
C5_FailedBatchRequeuedInOrder ==
    [][/\ \A f \in inflight :
            (Settles(f) /\ SentAlone(f) /\ lastSettled'.outcome # "ok")
                => /\ pendingLogs'[f.logger] = f.logs \o pendingLogs[f.logger]
                   /\ SeqToSet(Ids(pendingLogs[f.logger]))
                        = AcceptedAfter(accepted, f.logs)
       /\ \A f \in inflight' :
            (/\ Sends(f)
             /\ inflight = {}
             /\ lastSettled.rid = sent /\ sent >= 1
             /\ lastSettled.alone
             /\ lastSettled.outcome # "ok")
                => /\ Len(f.logs) >= Len(lastSettled.logs)
                   /\ SubSeq(f.logs, 1, Len(lastSettled.logs)) = lastSettled.logs
                   /\ \A i, j \in 1..Len(f.logs) :
                         i < j => f.logs[i].id < f.logs[j].id
                   /\ AcceptedAfter(accepted', lastSettled.logs)
                        \subseteq SeqToSet(Ids(f.logs))]_vars

\* C6: in every reachable state each pending queue is in enqueue order
C6_PendingInEnqueueOrder ==
    \A lg \in LoggerIds :
        \A i, j \in 1..Len(pendingLogs[lg]) :
            i < j => pendingLogs[lg][i].id < pendingLogs[lg][j].id

\* in how many places entry id is held
Places(id) ==
    Cardinality({<<lg, i>> \in LoggerIds \X (1..calls) :
                    i <= Len(pendingLogs[lg]) /\ pendingLogs[lg][i].id = id})
    + Cardinality({f \in inflight : id \in SeqToSet(Ids(f.logs))})
    + (IF id \in delivered THEN 1 ELSE 0)

\* C7: every entry accepted by queueForRemote is in exactly one place: once in
\* a pending queue, in one batch in flight, or delivered by a successful send.
C7_AcceptedEntryInExactlyOnePlace ==
    \A a \in accepted : Places(a.id) = 1

\* C8: a send answered with a non-success response puts its batch back at the
\* front of pending, as a transport error does.
C8_NonSuccessResponseRequeues ==
    [][\A f \in inflight :
        (Settles(f) /\ lastSettled'.outcome = "status")
            => pendingLogs'[f.logger] = f.logs \o pendingLogs[f.logger]]_vars

\* C9 as stated: no request carries an entry whose level ranks below the
\* remoteMinLevel configured when the request is sent.
C9_NoEntryBelowCurrentThreshold ==
    [][\A f \in inflight' :
        Sends(f) =>
            \A i \in 1..Len(f.logs) :
                LOG_LEVELS(f.logs[i].level)
                    >= LOG_LEVELS(Cfg(f.logger).remoteMinLevel)]_vars

\* C9 amended: no request carries an entry whose level ranked below the
\* remoteMinLevel configured when the entry was enqueued; a later change of
\* remoteMinLevel does not filter what is already pending.
C9_NoEntryBelowThresholdAtEnqueue ==
    \A f \in inflight :
        \A i \in 1..Len(f.logs) :
            \E a \in accepted :
                /\ a.id = f.logs[i].id
                /\ LOG_LEVELS(f.logs[i].level) >= LOG_LEVELS(a.remoteMinLevel)

\* a request in flight carries an entry below the threshold now configured
C9_Witness ==
    \E f \in inflight :
        \E i \in 1..Len(f.logs) :
            /\ f.logs[i].level = "info"
            /\ Cfg(f.logger).remoteMinLevel = "error"

----------------------------------------------------------------------------
(* The remote uploader when every failure is a transport error: fetch either *)
(* resolves with success or rejects.  C5_FailedBatchRequeuedInOrder and      *)
(* C7_AcceptedEntryInExactlyOnePlace hold under this specification.          *)

NextTransport ==
    \/ /\ calls < MaxCalls
       /\ \E level \in {"info", "error"} : Log("root", level, "undefined")
    \/ \E lg \in live : TimerFires(lg)
    \/ \E f \in inflight, outcome \in {"ok", "reject"} : FetchSettles(f, outcome)
    \/ \E updates \in ThresholdUpdates : UpdateLoggingConfig(updates)

SpecTransport == InitRemote /\ [][NextTransport]_vars

----------------------------------------------------------------------------
(* The remote uploader: enough calls to reach the batch threshold *)

\* the production configuration without local storage, with its endpoint or
\* with none
InitBatch ==
    \E remoteEndpoint \in {"url", "unset"} :
        InitWith([productionConfig EXCEPT !.enableLocalStorage = FALSE,
                                          !.remoteEndpoint = remoteEndpoint],
                 EmptyStore)

\* a burst of calls: a timer only fires once the fetch sent before it was armed
\* has settled (5000 ms against the duration of one request)
NextBatch ==
    \/ /\ calls < MaxBatchCalls
       /\ Log("root", "error", "undefined")
    \/ /\ inflight = {}
       /\ TimerFires("root")
    \/ \E f \in inflight, outcome \in FetchOutcomes : FetchSettles(f, outcome)

SpecBatch == InitBatch /\ [][NextBatch]_vars

\* C10: with remote logging on and an endpoint set, the call whose entry
\* brings pending to 10 sends, in the same step, one request whose logs are
\* the pending entries followed by the new one; pending is empty afterwards
\* and no timer is left armed.
C10_TenthEntryFlushesAtOnce ==
    [][(/\ IsCall
        /\ Cfg(lastCall'.logger).enableRemoteLogging
        /\ Cfg(lastCall'.logger).remoteEndpoint # "unset"
        /\ LOG_LEVELS(lastCall'.level)
             >= LOG_LEVELS(Cfg(lastCall'.logger).minLevel)
        /\ LOG_LEVELS(lastCall'.level)
             >= LOG_LEVELS(Cfg(lastCall'.logger).remoteMinLevel)
        /\ Len(pendingLogs[lastCall'.logger]) + 1 >= 10)
        => LET lg == lastCall'.logger
           IN /\ sent' = sent + 1
              /\ pendingLogs'[lg] = <<>>
              /\ flushTimer'[lg] = 0
              /\ \E f \in inflight' :
                    /\ Sends(f)
                    /\ f.logger = lg
                    /\ Len(f.logs) = Len(pendingLogs[lg]) + 1
                    /\ SubSeq(f.logs, 1, Len(pendingLogs[lg])) = pendingLogs[lg]
                    /\ Last(f.logs).id = calls']_vars

\* the first ten calls were all queued and sent as one batch by the tenth
C10_Witness ==
    /\ calls = 10
    /\ sent = 1
    /\ \E f \in inflight : Ids(f.logs) = [i \in 1..10 |-> i]
    /\ pendingLogs["root"] = <<>>
    /\ flushTimer["root"] = 0

----------------------------------------------------------------------------
(* The flush timer *)

\* a timeout of lg leaves the host's table outside a leveled call: it fired
TimerFired(lg) ==
    /\ calls' = calls
    /\ \E t \in timers : t.logger = lg /\ t \notin timers'

\* an enqueue that appended its entry to the pending queue and did not flush
EnqueuedOnly(lg) ==
    /\ IsCall /\ lastCall'.logger = lg
    /\ Len(pendingLogs'[lg]) = Len(pendingLogs[lg]) + 1
    /\ Len(pendingLogs'[lg]) < BatchSize

\* flushRemoteLogs of lg starts in this step: from its timer, or from the
\* enqueue that finds the batch full
FlushStarts(lg) ==
    \/ TimerFired(lg)
    \/ /\ IsCall /\ lastCall'.logger = lg
       /\ accepted' # accepted
       /\ Len(pendingLogs[lg]) + 1 >= BatchSize

\* the timeouts of lg in the host's table
TimersOf(lg, hostTimers) == {t \in hostTimers : t.logger = lg}

\* C20: a flush cancels the timer first, also when it then returns early:
\* right after a flush starts the logger holds no handle and the host has no
\* timeout of it left; at any time the host has at most one timeout per
\* logger and it is the one the logger holds, so no timeout set before a
\* size-triggered flush can fire after it; and a request never carries an
\* entry that is in another request in flight or was delivered already.
C20_FlushCancelsTimerFirst ==
    [][\A lg \in live :
        /\ FlushStarts(lg) =>
              flushTimer'[lg] = 0 /\ TimersOf(lg, timers') = {}
        /\ Cardinality(TimersOf(lg, timers')) <= 1
        /\ \A t \in TimersOf(lg, timers') : t.handle = flushTimer'[lg]
        /\ \A f \in inflight' \ inflight :
              \A i \in 1..Len(f.logs) :
                 /\ f.logs[i].id \notin delivered
                 /\ \A g \in inflight : f.logs[i].id \notin SeqToSet(Ids(g.logs))
       ]_vars

\* with no endpoint the tenth enqueue starts a flush that returns early: the
\* ten entries stay pending and the timer set by the first enqueue is gone
C20_Witness ==
    /\ calls = 10 /\ Cfg("root").remoteEndpoint = "unset"
    /\ Len(pendingLogs["root"]) = 10
    /\ flushTimer["root"] = 0 /\ timers = {}

\* C11: with an endpoint configured, when the timer fires on fewer than 10
\* pending entries exactly one request is sent, carrying the pending entries
\* as they are queued, and the queue is left empty; when nothing was sent
\* before, these are all the accepted entries in enqueue order and the timer
\* is the one set by the first of them.  An enqueue that finds no timer sets
\* one; an enqueue that finds a timer leaves it and the host's table alone.
C11_TimerSendsPendingInEnqueueOrder ==
    [][\A lg \in live :
        /\ (/\ TimerFired(lg)
            /\ Cfg(lg).remoteEndpoint = "url"
            /\ Len(pendingLogs[lg]) > 0 /\ Len(pendingLogs[lg]) < BatchSize)
           => /\ sent' = sent + 1
              /\ pendingLogs'[lg] = <<>>
              /\ \E f \in inflight' :
                   /\ inflight' = inflight \cup {f} /\ f \notin inflight
                   /\ f.logger = lg /\ f.logs = pendingLogs[lg]
              /\ sent = 0 =>
                   /\ flushTimer[lg] = pendingLogs[lg][1].id
                   /\ {a.id : a \in accepted} = SeqToSet(Ids(pendingLogs[lg]))
                   /\ \A i, j \in 1..Len(pendingLogs[lg]) :
                        i < j => pendingLogs[lg][i].id < pendingLogs[lg][j].id
        /\ (EnqueuedOnly(lg) /\ flushTimer[lg] # 0)
           => flushTimer'[lg] = flushTimer[lg] /\ timers' = timers
        /\ (EnqueuedOnly(lg) /\ flushTimer[lg] = 0)
           => /\ flushTimer'[lg] = calls'
              /\ timers' = timers \cup {[logger |-> lg, handle |-> calls']}]_vars

\* three entries enqueued, then the timer set by the first sent them in one
\* request
C11_Witness ==
    /\ sent = 1 /\ pendingLogs["root"] = <<>>
    /\ \E f \in inflight : Ids(f.logs) = <<1, 2, 3>> /\ f.trigger = "timer"

----------------------------------------------------------------------------
(* Configuration shared by derived loggers *)

\* configuration objects on the heap: loggingConfig and those configure makes
MaxConfigs == 3
\* leveled calls in the specification of configuration updates
MaxConfigCalls == 2

\* the partial updates drawn for configure and updateLoggingConfig
ConfigUpdates ==
    {[minLevel |-> "error"], [enableRemoteLogging |-> FALSE]}

InitConfig ==
    InitWith([productionConfig EXCEPT !.enableLocalStorage = FALSE], EmptyStore)

NextConfig ==
    \/ WithContext("root", "child")
    \/ /\ Len(heap) < MaxConfigs
       /\ \E lg \in LoggerIds, updates \in ConfigUpdates : Configure(lg, updates)
    \/ \E updates \in ConfigUpdates : UpdateLoggingConfig(updates)
    \/ /\ calls < MaxConfigCalls
       /\ \E lg \in LoggerIds, level \in {"info", "error"} :
            Log(lg, level, "undefined")

SpecConfig == InitConfig /\ [][NextConfig]_vars

\* C12: in every reachable state the root logger and every logger derived from
\* it read the same configuration values (each under its own context label),
\* so that an update made through configure on one is visible to the others.
C12_DerivedLoggersReadSameConfiguration ==
    \A lg \in live : Cfg(lg) = Cfg("root")

----------------------------------------------------------------------------
(* Leveled calls on hosts whose platform metadata or console fail *)

\* leveled calls in the specification of failing hosts
MaxHostCalls == 2

\* console and device information on or off
HostConfigs ==
    {[productionConfig EXCEPT !.enableConsole = enableConsole,
                              !.includeDeviceInfo = includeDeviceInfo] :
        enableConsole \in BOOLEAN, includeDeviceInfo \in BOOLEAN}

InitHost == \E config \in HostConfigs : InitWith(config, EmptyStore)

NextHost ==
    \/ /\ calls < MaxHostCalls
       /\ \E level \in {"debug", "error"}, host \in Hosts :
            LogCall("root", level, "undefined", host)
    \/ StorageStep
    \/ RemoteStep

SpecHost == InitHost /\ [][NextHost]_vars

\* C13: no leveled call raises to its caller, whatever the console channel,
\* the key-value store or the network transport do.
C13_LeveledCallNeverRaises == ~lastCall.raised

\* the failures of the store and of the transport stay inside the subsystem:
\* a call raises only when formatEntry or the console write of that very call
\* threw
RaisesOnlyFromFormatOrConsole ==
    lastCall.raised =>
        \/ lastCall.host.version = "undefined" /\ Cfg("root").includeDeviceInfo
        \/ lastCall.host.console = "throws" /\ Cfg("root").enableConsole

\* C19: when includeDeviceInfo is true and the platform has no version to
\* give, a call that passes minLevel on a working console returns normally and
\* its entry, built without deviceInfo, is offered to every enabled sink.
C19_MissingPlatformMetadataOmitsDeviceInfo ==
    [][(/\ IsCall
        /\ lastCall'.host = [version |-> "undefined", console |-> "works"]
        /\ Cfg(lastCall'.logger).includeDeviceInfo
        /\ ShouldLog(lastCall'.logger, lastCall'.level))
       => LET lg == lastCall'.logger
          IN /\ ~lastCall'.raised
             /\ Cfg(lg).enableConsole => ReachesConsole
             /\ Cfg(lg).enableLocalStorage =>
                  \E t \in appends' \ appends :
                      t.entry.id = calls' /\ ~t.entry.deviceInfo
             /\ ShouldLogRemote(lg, lastCall'.level) => ReachesRemote]_vars

----------------------------------------------------------------------------
(* Reading the store back, and a store that holds a corrupt value *)

\* leveled calls in the specification of reading back
MaxReadCalls == 2
\* getStoredLogs calls suspended at the same time
MaxReads == 1

ReadOutcomes == {"resolved", "rejected"}

\* local storage only, capacity out of reach; the store starts absent or
\* corrupt
InitRead ==
    \E stored \in {EmptyStore, CorruptStore} :
        InitWith([developmentConfig EXCEPT !.enableConsole = FALSE], stored)

NextRead ==
    \/ /\ calls < MaxReadCalls
       /\ \E level \in {"info", "error"}, data \in DataValues :
            Log("root", level, data)
    \/ StorageStep
    \/ reads < MaxReads /\ GetStoredLogs
    \/ \E read \in ReadOutcomes : GetStoredLogsSettles(read)

SpecRead == InitRead /\ [][NextRead]_vars

\* a getStoredLogs call returns in this step
ReadReturns == reads' = reads - 1

\* C16: getStoredLogs never raises; it returns the stored entries in stored
\* order (oldest first), and the empty sequence when the key is absent, when
\* the read fails or when the stored text cannot be parsed; it leaves the
\* stored value as it is.
C16_GetStoredLogsNeverRaises ==
    [][ReadReturns =>
        /\ ~returned'.raised
        /\ store' = store
        /\ (returned'.read = "resolved" /\ store.kind = "json")
              => returned'.value = store.logs
        /\ (returned'.read = "rejected" \/ store.kind \in {"absent", "corrupt"})
              => returned'.value = <<>>]_vars

\* getStoredLogs returned two stored entries, oldest first
C16_Witness ==
    /\ returned.read = "resolved" /\ ~returned.raised
    /\ Ids(returned.value) = <<1, 2>>
    /\ store.kind = "json" /\ store.logs = returned.value

\* getStoredLogs returned the empty sequence for a corrupt stored value
ReadOfCorruptStoreReturnsEmpty ==
    /\ returned.read = "resolved" /\ ~returned.raised
    /\ returned.value = <<>> /\ store.kind = "corrupt"

\* C17: an append that read a stored value it cannot deserialize goes on as if
\* the stored sequence were empty: it hands exactly [entry] to setItem, so the
\* corrupt value does not keep later entries out of the store.
C17_AppendOverCorruptValueWritesEntry ==
    [][\A t \in appends :
        (t.phase = "got" /\ t.val.kind = "corrupt" /\ t \notin appends')
          => [t EXCEPT !.phase = "set",
                       !.val = [kind |-> "json", logs |-> <<t.entry>>]]
                \in appends']_vars

----------------------------------------------------------------------------
(* Appends of two loggers on the one store *)

\* leveled calls in the specification of appends by two loggers
MaxOverlapCalls == 3

\* local storage only, the capacity out of reach
InitOverlap ==
    InitWith([developmentConfig EXCEPT !.enableConsole = FALSE], EmptyStore)

NextOverlap ==
    \/ WithContext("root", "child")
    \/ /\ calls < MaxOverlapCalls
       /\ Cardinality(appends) < MaxAppends
       /\ \E lg \in LoggerIds : Log(lg, "info", "undefined")
    \/ StorageStep

SpecOverlap == InitOverlap /\ [][NextOverlap]_vars

\* the setItem of append t takes effect in this step
Writes(t) ==
    /\ t \in appends /\ t.phase = "set"
    /\ appends' = appends \ {t} /\ console' = console

\* C18: an append loses an earlier update only when its read-modify-write
\* window overlaps another write: a write whose append read the value the
\* store still holds adds its entry and keeps every stored one (capacity not
\* reached), and every write leaves its own entry last in the store.  The
\* overlap itself, two calls in a row after which the store lacks one of the
\* two entries, is the state C18_Witness.
C18_UpdateLostOnlyByOverlap ==
    [][\A t \in appends :
        Writes(t) =>
          /\ store'.kind = "json" /\ Last(store'.logs) = t.entry
          /\ (t.read = store /\ Len(store.logs) < Cfg(t.logger).maxStoredLogs)
                => store'.logs = Append(store.logs, t.entry)]_vars

\* two calls of one logger, both appends completed with no storage failure,
\* capacity far away, and the store holds one entry only
C18_Witness ==
    /\ calls = 2 /\ live = {"root"} /\ appends = {} /\ console = <<>>
    /\ store.kind = "json" /\ Len(store.logs) = 1

\* the same with one call of each of two loggers
LostUpdateAcrossLoggers ==
    /\ calls = 2 /\ appends = {} /\ console = <<>>
    /\ store.kind = "json" /\ Len(store.logs) = 1
    /\ store.logs[1].context = "child" /\ lastCall.logger = "root"

----------------------------------------------------------------------------
(* Flushes in flight, failed flushes, flushes without an endpoint *)

\* the requests of lg awaiting their outcome
InFlightOf(lg) == {f \in inflight : f.logger = lg}

\* C21: for one logger there is never more than one delivery attempt in
\* flight, for any interleaving of enqueues, timer firings and completions.
C21_OneDeliveryAttemptInFlight ==
    \A lg \in live : Cardinality(InFlightOf(lg)) <= 1

\* C22: a failed send (a transport error or a non-success response) puts its
\* batch back at the front of pending and schedules nothing: the timer and
\* the host's table are as before and no request is sent; while no call is
\* made and no timer of the logger is set, the logger sends nothing and its
\* pending queue loses nothing; a request is only ever sent by an enqueue that
\* fills the batch or by a timer that fires.
C22_FailedFlushSchedulesNoRetry ==
    [][/\ \A f \in inflight :
            (Settles(f) /\ lastSettled'.outcome # "ok")
              => /\ pendingLogs'[f.logger] = f.logs \o pendingLogs[f.logger]
                 /\ UNCHANGED <<flushTimer, timers, sent>>
       /\ \A lg \in live :
            (calls' = calls /\ TimersOf(lg, timers) = {})
              => /\ InFlightOf(lg)' \subseteq InFlightOf(lg)
                 /\ SeqToSet(pendingLogs[lg]) \subseteq SeqToSet(pendingLogs'[lg])
       /\ sent' # sent =>
            \E lg \in live :
               \/ TimerFired(lg)
               \/ /\ IsCall /\ lastCall'.logger = lg
                  /\ Len(pendingLogs[lg]) + 1 >= BatchSize]_vars

\* C23: a flush that finds pending empty or no endpoint sends no request and
\* leaves the entries pending, the timer alone being cancelled; with remote
\* logging on and no endpoint every accepted entry stays pending in enqueue
\* order and nothing is ever sent, the enqueues from the 10th on included.
C23_FlushWithoutEndpointSendsNothing ==
    [][\A lg \in live :
        /\ (/\ FlushStarts(lg)
            /\ \/ Cfg(lg).remoteEndpoint = "unset"
               \/ TimerFired(lg) /\ pendingLogs[lg] = <<>>)
           => /\ UNCHANGED <<inflight, sent, delivered>>
              /\ flushTimer'[lg] = 0 /\ TimersOf(lg, timers') = {}
              /\ IF IsCall
                 THEN /\ Len(pendingLogs'[lg]) = Len(pendingLogs[lg]) + 1
                      /\ SubSeq(pendingLogs'[lg], 1, Len(pendingLogs[lg]))
                           = pendingLogs[lg]
                      /\ Last(pendingLogs'[lg]).id = calls'
                 ELSE pendingLogs'[lg] = pendingLogs[lg]
        /\ Cfg(lg).remoteEndpoint = "unset"
           => /\ sent' = 0 /\ inflight' = {} /\ delivered' = {}
              /\ SeqToSet(Ids(pendingLogs'[lg]))
                   = {a.id : a \in accepted'}
              /\ \A i, j \in 1..Len(pendingLogs'[lg]) :
                   i < j => pendingLogs'[lg][i].id < pendingLogs'[lg][j].id]_vars

\* with no endpoint eleven accepted entries are all pending, in order; the
\* 10th and the 11th enqueue each ran a flush that sent nothing
C23_Witness ==
    /\ calls = 11 /\ Cfg("root").remoteEndpoint = "unset"
    /\ Ids(pendingLogs["root"]) = [i \in 1..11 |-> i]
    /\ sent = 0 /\ timers = {} /\ flushTimer["root"] = 0

\* C28: in every reachable state a logger that holds a timer, or has a
\* timeout in the host's table, has a non-empty pending queue.
C28_ArmedTimerImpliesPending ==
    \A lg \in live :
        (flushTimer[lg] # 0 \/ TimersOf(lg, timers) # {})
          => Len(pendingLogs[lg]) > 0

\* a timer set while a request was in flight, after the requeue of that
\* request: the requeued entry and the newer one are pending
C28_Witness ==
    /\ flushTimer["root"] # 0 /\ sent = 1 /\ inflight = {}
    /\ lastSettled.outcome = "reject"
    /\ Len(pendingLogs["root"]) = 2

----------------------------------------------------------------------------
(* Two loggers: their own queues and timers, the one store *)

\* leveled calls in the specification of the two loggers' queues
MaxOwnerCalls == 11
\* the root logger's calls are among the first MaxRootCalls calls
MaxRootCalls == 2

\* the production configuration: local storage and remote logging on
InitOwners == InitWith(productionConfig, EmptyStore)

\* a few calls of either logger, then a burst of the derived one; each call
\* after the append of the call before it has completed; a timer fires once
\* no request is in flight
NextOwners ==
    \/ WithContext("root", "child")
    \/ /\ calls < MaxOwnerCalls /\ appends = {}
       /\ \E lg \in LoggerIds :
            /\ lg = "root" => calls < MaxRootCalls
            /\ Log(lg, "error", "undefined")
    \/ \E t \in appends :
          GetItemResolves(t) \/ StoreLocallyResume(t) \/ SetItemResolves(t)
    \/ /\ inflight = {}
       /\ \E lg \in live : TimerFires(lg)
    \/ \E f \in inflight : FetchSettles(f, "ok")

SpecOwners == InitOwners /\ [][NextOwners]_vars

\* the context labels of the entries of a sequence
Contexts(logs) == {logs[i].context : i \in 1..Len(logs)}

\* C27: a leveled call on one logger changes neither the pending queue nor
\* the timer nor the requests of another; the enqueue of a logger flushes
\* exactly when that logger's own queue reaches 10; a pending queue and a
\* batch hold only entries emitted through their logger; and the appends of
\* every logger write the one stored sequence.
C27_LoggersOwnQueueAndTimer ==
    [][/\ IsCall =>
            LET lg == lastCall'.logger
            IN /\ \A other \in LoggerIds \ {lg} :
                    /\ pendingLogs'[other] = pendingLogs[other]
                    /\ flushTimer'[other] = flushTimer[other]
                    /\ TimersOf(other, timers') = TimersOf(other, timers)
                    /\ InFlightOf(other)' = InFlightOf(other)
               /\ accepted' # accepted =>
                    (sent' = sent + 1 <=> Len(pendingLogs[lg]) + 1 >= BatchSize)
       /\ \A lg \in live : Contexts(pendingLogs'[lg]) \subseteq {lg}
       /\ \A f \in inflight' : Contexts(f.logs) \subseteq {f.logger}
       /\ \A t \in appends :
            Writes(t) => /\ store' = t.val
                         /\ store'.logs = Append(store.logs, t.entry)]_vars

\* ten calls on the derived logger and one on the root: the derived logger's
\* tenth enqueue sent its ten entries, the root's entry is pending under the
\* root's timer, and the store holds the entries of both
C27_Witness ==
    /\ calls = 11
    /\ Len(pendingLogs["root"]) = 1 /\ flushTimer["root"] # 0
    /\ pendingLogs["child"] = <<>> /\ flushTimer["child"] = 0
    /\ \E f \in inflight :
          f.logger = "child" /\ Len(f.logs) = 10 /\ f.trigger = "size"
    /\ store.kind = "json" /\ Contexts(store.logs) = {"root", "child"}

----------------------------------------------------------------------------
(* Clearing the store while appends are in progress *)

\* leveled calls in the specification of clearing
MaxClearCalls == 2
\* clearStoredLogs calls suspended at the same time
MaxClears == 1
\* console.error lines after which removeItem no longer rejects
MaxConsoleErrors == 1

InitClear ==
    InitWith([developmentConfig EXCEPT !.enableConsole = FALSE], EmptyStore)

NextClear ==
    \/ /\ calls < MaxClearCalls
       /\ \E level \in {"info", "error"} : Log("root", level, "undefined")
    \/ StorageStep
    \/ clears < MaxClears /\ ClearStoredLogs
    \/ RemoveItemResolves
    \/ Len(console) < MaxConsoleErrors /\ RemoveItemRejects
    \/ reads < MaxReads /\ GetStoredLogs
    \/ \E read \in ReadOutcomes : GetStoredLogsSettles(read)

SpecClear == InitClear /\ [][NextClear]_vars

\* C24: the entries that a completed clearStoredLogs removed never reappear
\* in the store (which is what getStoredLogs returns), also when an append
\* that started before the clear completes after it.
C24_ClearedEntriesNeverReappear ==
    \A i \in 1..Len(store.logs) : store.logs[i].id \notin cleared

\* a clear that finds no append in progress leaves the store absent until the
\* append of a later call writes
ClearWithoutAppendEmptiesStore ==
    [][(clears' = clears - 1 /\ store' # store /\ appends = {})
         => store'.kind = "absent" /\ store'.logs = <<>>]_vars

----------------------------------------------------------------------------
(* Exporting the stored entries *)

\* leveled calls in the specification of exporting
MaxExportCalls == 2
\* exportLogs calls suspended at the same time
MaxExports == 1

\* what a caller may pass as data: nothing, an object, or a falsy value
ExportData == {"undefined", "object", "null", "zero"}

InitExport ==
    InitWith([developmentConfig EXCEPT !.enableConsole = FALSE], EmptyStore)

\* calls one after the other's append, and exports
NextExport ==
    \/ /\ calls < MaxExportCalls /\ appends = {}
       /\ \E level \in {"info", "error"}, data \in ExportData :
            Log("root", level, data)
    \/ \E t \in appends :
          GetItemResolves(t) \/ StoreLocallyResume(t) \/ SetItemResolves(t)
    \/ exports < MaxExports /\ ExportLogs
    \/ \E read \in ReadOutcomes : ExportLogsSettles(read)

SpecExport == InitExport /\ [][NextExport]_vars

\* C25: exportLogs returns one line per stored entry, oldest first, and a
\* line ends with the entry's data as text exactly when the entry has data
\* attached, that is when anything but undefined was passed, null, false, 0
\* and the empty string included.
C25_ExportedLineCarriesAttachedData ==
    /\ Len(exported.lines) = Len(exported.logs)
    /\ \A i \in 1..Len(exported.lines) :
          /\ exported.lines[i].timestamp = exported.logs[i].id
          /\ exported.lines[i].data # "" <=> exported.logs[i].data # "undefined"

\* one line per stored entry in stored order, each with the entry's level in
\* upper case, its context and message, and its data as text when the data
\* is truthy
ExportedLinesFollowStore ==
    /\ Len(exported.lines) = Len(exported.logs)
    /\ \A i \in 1..Len(exported.lines) :
          /\ exported.lines[i].timestamp = exported.logs[i].id
          /\ exported.lines[i].context = exported.logs[i].context
          /\ exported.lines[i].message = exported.logs[i].message
          /\ exported.lines[i].data # "" <=> exported.logs[i].data = "object"
    /\ \A i, j \in 1..Len(exported.lines) :
          i < j => exported.lines[i].timestamp < exported.lines[j].timestamp

----------------------------------------------------------------------------
(* logError *)

\* calls in the specification of logError
MaxErrorCalls == 2

\* thresholds below, at and above error, every sink on or off
ErrorConfigs ==
    {config \in GateConfigs :
        /\ config.minLevel \in {"info", "error", "none"}
        /\ config.remoteMinLevel \in {"warn", "none"}}

InitError == \E config \in ErrorConfigs : InitWith(config, EmptyStore)

NextError ==
    \/ /\ calls < MaxErrorCalls
       /\ \/ \E error \in Errors, context \in ErrorContexts :
                LogError("root", error, context)
          \/ Log("root", "error", "object")
    \/ RemoteStep

SpecError == InitError /\ [][NextError]_vars

\* the entries this step's call handed to the store and to the remote queue
NewEntries ==
    {t.entry : t \in appends' \ appends}
    \cup {e \in SeqToSet(pendingLogs'[lastCall'.logger]) : e.id = calls'}
    \cup {e \in UNION {SeqToSet(f.logs) : f \in inflight' \ inflight} :
             e.id = calls'}

\* C26: logError(error, context) is one call at level error, gated and
\* dispatched like error(): each sink gets its entry under the conditions of
\* an error() call and at most once; the entry's data is {name, message,
\* stack} of the error, and its message is the context argument, or the
\* error's message when no context is given.
C26_LogErrorIsOneErrorCall ==
    [][(IsCall /\ lastCall'.method = "logError") =>
        LET lg == lastCall'.logger
            passes == LOG_LEVELS("error") >= LOG_LEVELS(Cfg(lg).minLevel)
        IN /\ lastCall'.level = "error" /\ ~lastCall'.raised
           /\ ReachesConsole <=> (passes /\ Cfg(lg).enableConsole)
           /\ ~ReachesConsole => console' = console
           /\ ReachesConsole => Last(console').channel = "error"
           /\ ReachesStore <=> (passes /\ Cfg(lg).enableLocalStorage)
           /\ Cardinality(appends' \ appends) <= 1
           /\ ReachesRemote <=>
                (/\ passes /\ Cfg(lg).enableRemoteLogging
                 /\ LOG_LEVELS("error") >= LOG_LEVELS(Cfg(lg).remoteMinLevel))
           /\ Cardinality(accepted' \ accepted) <= 1
           /\ Cardinality(NewEntries) <= 1
           /\ \A e \in NewEntries :
                /\ e.level = "error"
                /\ e.data = ErrorInfo(lastCall'.error)
                /\ lastCall'.context = "undefined"
                     => e.message = lastCall'.error
                /\ lastCall'.context = "checkout" => e.message = "checkout"]_vars

\* logError(new Error('boom')) with no context, every sink on: one entry with
\* the error's message and its {name, message, stack}, on console.error, in
\* an append and pending
C26_Witness ==
    /\ calls = 1 /\ lastCall.method = "logError"
    /\ lastCall.error = "boom" /\ lastCall.context = "undefined"
    /\ Len(console) = 1 /\ console[1].channel = "error" /\ console[1].withData
    /\ \E t \in appends :
          t.entry.message = "boom" /\ t.entry.data = ErrorInfo("boom")
    /\ Len(pendingLogs["root"]) = 1
    /\ pendingLogs["root"][1].message = "boom"

====
